---- MODULE Spec2Model ----
(***************************************************************************)
(* Healthcare job scraper: the record store (database/connection.py), the  *)
(* fetch governor (scrapers/base_scraper.py) and the collectors' loop that *)
(* drives it (scrapers/indeed_scraper.py), and the pay normalizer          *)
(* (parsers/pay_normalizer.py).                                            *)
(*                                                                         *)
(* Text is modelled as a sequence of one-character strings, Python's None  *)
(* as NoneVal (for scalar values) or NoneText (for text).  Times are whole *)
(* seconds.                                                                *)
(***************************************************************************)
EXTENDS Integers, Sequences, FiniteSets, TLC

VARIABLES
    now,            \* the process clock, datetime.now()
    dbskew,         \* database clock minus process clock (func.now() - datetime.now())
    db,             \* committed rows of healthcare_jobs, in id order
    sess,           \* the rows the open session sees: db plus its own uncommitted work
    pc,             \* add_jobs: "idle", "running", "returned" or "raised"
    batch,          \* the items of the current (or last) add_jobs call handled so far
    new_count,      \* add_jobs' new_count
    updated_count,  \* add_jobs' updated_count
    result,         \* what the last add_jobs call returned: <<new, updated>> or NoResult
    dbBefore,       \* the committed rows when the current (or last) call began
    prev,           \* the call before, when it returned from a batch of one, else NoCall
    ncalls,         \* add_jobs calls begun so far
    respect_robots, \* BaseScraper.respect_robots
    robots,         \* what each origin's server answers for /robots.txt
    robots_parser,  \* BaseScraper.robots_parser: NoParser or the parser and what it holds
    robots_checked, \* BaseScraper._robots_checked
    request_count,  \* BaseScraper.request_count
    clock,          \* seconds since BaseScraper.session_start
    reads,          \* robots.txt files read so far, per origin
    lastCheck,      \* the last check_robots_txt call: its url, verdict, sleep
    lastPage,       \* the last get_page call: its url and what it did
    scrape,         \* IndeedScraper.scrape: the loop's position
    skipped,        \* the urls get_page refused to the scrape loop
    reasked,        \* whether the scrape loop asked for a refused url again
    checks,         \* direct check_robots_txt calls made so far
    pay_text,       \* the pay text given to PayNormalizer.normalize
    assumed_weekly_hours,   \* PayNormalizer.weekly_hours
    assumed_annual_hours,   \* PayNormalizer.annual_hours
    normalized,     \* what normalize returned or raised; NotRun before the call
    listing,        \* the last get_jobs call: its arguments and the ids it returned
    args,           \* run_scraper's arguments (use_ai_parsing: the flag and an API key)
    run_pc,         \* run_scraper: "start", "scraping", "normalized", "enriched",
                    \* "saved", "returned" or "raised"
    scrapers,       \* run_scraper's scrapers dict, in insertion order
    visits,         \* the scraper.scrape(city, state) calls made so far
    all_jobs,       \* run_scraper's all_jobs
    jobs_scraped,   \* all_jobs as the scrape loops left it
    jobs_before_ai, \* all_jobs as the normalization loop left it
    pay_found,      \* what normalize gave the loop for each posting
    ai_parsed,      \* what AIJobParser.parse answered for each posting
    saved,          \* the outcome of the storage step
    returned,       \* what run_scraper returned
    writers         \* the concurrent add_jobs calls: each one's position and session

storeVars == <<now, dbskew, db, sess, pc, batch, new_count, updated_count, result,
               dbBefore, prev, ncalls>>

govVars == <<respect_robots, robots, robots_parser, robots_checked, request_count,
             clock, reads, lastCheck, lastPage, scrape, skipped, reasked, checks>>

payVars == <<pay_text, assumed_weekly_hours, assumed_annual_hours, normalized>>

queryVars == <<listing>>

runVars == <<args, run_pc, scrapers, visits, all_jobs, jobs_scraped, jobs_before_ai,
             pay_found, ai_parsed, saved, returned>>

writerVars == <<writers>>

vars == <<storeVars, govVars, payVars, queryVars, runVars, writerVars>>

----------------------------------------------------------------------------
(* Bounds of the model *)

MaxTime == 1      \* the process clock runs 0..MaxTime
MaxSkew == 1      \* the database clock differs by at most MaxSkew
MaxItems == 2     \* postings handled in one add_jobs call
MaxCalls == 2     \* add_jobs calls in one run
MaxJobTypes == 2  \* job types one scrape searches for
MaxCities == 1    \* cities one scraper instance is run for
MaxChecks == 1    \* direct check_robots_txt calls
MaxLoad == 0      \* seconds a page load may take
MaxPhrases == 2   \* dollar phrases in one pay text
MaxRows == 3      \* rows in the table get_jobs reads
MaxSeen == 2      \* the latest time a row of that table was written
MaxRunCities == 2 \* cities of a run_scraper call

----------------------------------------------------------------------------
(* Values *)

NoneVal == "None"
NoneText == <<"None">>
NoResult == <<>>
NoCall == [batch |-> <<>>, outcome |-> "none", result |-> NoResult, before |-> <<>>]

\* Python truthiness of an optional string: None and "" are falsy.
Truthy(s) == s # NoneVal /\ s # ""

SourceUrls == {NoneVal, "", "http://x/1", "http://x/2"}
Versions == {1, 2}

\* "Boston, MA" and "Boston,", written over a two-letter alphabet
Locations == { <<"b", ",", " ", "m">>, <<"b", ",">> }

DbNow == now + dbskew

----------------------------------------------------------------------------
(* DatabaseManager._parse_location *)

IsSpace(c) == c = " "

RECURSIVE LStrip(_)
LStrip(s) == IF s # <<>> /\ IsSpace(Head(s)) THEN LStrip(Tail(s)) ELSE s

RECURSIVE RStrip(_)
RStrip(s) ==
    IF s # <<>> /\ IsSpace(s[Len(s)]) THEN RStrip(SubSeq(s, 1, Len(s) - 1)) ELSE s

\* str.strip()
Strip(s) == RStrip(LStrip(s))

\* the index of the first c in s, 0 when there is none
RECURSIVE FindFrom(_, _, _)
FindFrom(s, c, i) ==
    IF i > Len(s) THEN 0 ELSE IF s[i] = c THEN i ELSE FindFrom(s, c, i + 1)

\* str.split(',')
RECURSIVE SplitComma(_)
SplitComma(s) ==
    LET i == FindFrom(s, ",", 1)
    IN  IF i = 0 THEN <<s>>
        ELSE <<SubSeq(s, 1, i - 1)>> \o SplitComma(SubSeq(s, i + 1, Len(s)))

\* str.split(): the whitespace-delimited tokens
RECURSIVE SplitWs(_)
SplitWs(s) ==
    LET t == LStrip(s)
        j == FindFrom(t, " ", 1)
    IN  IF t = <<>> THEN <<>>
        ELSE IF j = 0 THEN <<t>>
        ELSE <<SubSeq(t, 1, j - 1)>> \o SplitWs(SubSeq(t, j + 1, Len(t)))

\* [raised, city, state]; raised is the IndexError of split()[0] on a blank part
parse_location(location) ==
    IF location = NoneText \/ location = <<>>
    THEN [raised |-> FALSE, city |-> NoneText, state |-> NoneText]
    ELSE LET parts == SplitComma(location)
         IN  IF Len(parts) >= 2
             THEN LET words == SplitWs(Strip(parts[2]))
                  IN  IF words = <<>>
                      THEN [raised |-> TRUE, city |-> NoneText, state |-> NoneText]
                      ELSE [raised |-> FALSE, city |-> Strip(parts[1]),
                            state |-> words[1]]
             ELSE [raised |-> FALSE, city |-> location, state |-> NoneText]

----------------------------------------------------------------------------
(* Postings (BaseScraper.create_job_record, run_scraper) and rows          *)
(* (HealthcareJob)                                                         *)

\* A posting as the collector hands it over.  v tells two observations of a
\* listing apart: every descriptive field differs between version 1 and 2.
\* city and state are the search city and state run_scraper writes onto every
\* posting of a scrape.
JobRecord(v, url, loc, at) ==
    [ job_title       |-> <<"job_title", v>>,
      facility_name   |-> <<"facility_name", v>>,
      location        |-> loc,
      city            |-> <<"city", v>>,
      state           |-> <<"state", v>>,
      pay_raw         |-> <<"pay_raw", v>>,
      specialty       |-> <<"specialty", v>>,
      shift_type      |-> <<"shift_type", v>>,
      employment_type |-> <<"employment_type", v>>,
      source          |-> <<"source", v>>,
      source_url      |-> url,
      scraped_at      |-> at,
      search_query    |-> <<"search_query", v>>,
      pay_rate_low    |-> <<"pay_rate_low", v>>,
      pay_rate_high   |-> <<"pay_rate_high", v>>,
      pay_type        |-> <<"pay_type", v>> ]

\* The row add_jobs builds for a posting; scraped_at, first_seen and
\* last_seen are column defaults, filled in when the row is flushed.
NewJob(job_data, city, state) ==
    [ job_title       |-> job_data.job_title,
      specialty       |-> job_data.specialty,
      facility_name   |-> job_data.facility_name,
      city            |-> city,
      state           |-> state,
      location        |-> job_data.location,
      pay_raw         |-> job_data.pay_raw,
      pay_rate_low    |-> job_data.pay_rate_low,
      pay_rate_high   |-> job_data.pay_rate_high,
      pay_type        |-> job_data.pay_type,
      shift_type      |-> job_data.shift_type,
      employment_type |-> job_data.employment_type,
      source          |-> job_data.source,
      source_url      |-> job_data.source_url,
      search_query    |-> job_data.search_query,
      scraped_at      |-> 0,
      first_seen      |-> 0,
      last_seen       |-> 0,
      flushed         |-> FALSE ]

\* The INSERT of every pending row: the column defaults func.now() are taken
\* from the database clock at that moment.
Flush(rows, t) ==
    [i \in DOMAIN rows |->
        IF rows[i].flushed THEN rows[i]
        ELSE [rows[i] EXCEPT !.scraped_at = t, !.first_seen = t, !.last_seen = t,
                             !.flushed = TRUE]]

\* a session without autoflush: pending rows stay out of the table
AutoflushOff(rows, t) == rows

\* sessionmaker's default autoflush: a query first INSERTs the pending rows.
Autoflush(rows, t) == Flush(rows, t)

\* session.query(HealthcareJob).filter_by(source_url=url).first(): the id of
\* the first row in the table with that source_url, 0 when there is none
MatchLookup(rows, url) ==
    LET hits == {i \in DOMAIN rows : rows[i].flushed /\ rows[i].source_url = url}
    IN  IF hits = {} THEN 0 ELSE CHOOSE i \in hits : \A j \in hits : i <= j

----------------------------------------------------------------------------
(* DatabaseManager.add_jobs *)

\* dedup forgotten: every posting is taken as unseen
ExistingNever(rows, job_data) == 0

\* the lookup guarded by "is not None" instead of truthiness
ExistingNotNone(rows, job_data) ==
    IF job_data.source_url # NoneVal THEN MatchLookup(rows, job_data.source_url) ELSE 0

\* The row a posting matches, 0 for none.  A posting with a falsy source_url
\* is not looked up at all; the query autoflushes, so rows added earlier in
\* the same call are found.
Existing(rows, job_data) ==
    IF Truthy(job_data.source_url) THEN MatchLookup(rows, job_data.source_url) ELSE 0

\* an upsert that refreshes the row from the new observation
UpdateExistingRefresh(existing, job_data, t) ==
    [existing EXCEPT !.last_seen = t, !.job_title = job_data.job_title,
                     !.pay_raw = job_data.pay_raw]

\* existing.last_seen = datetime.now(): nothing of job_data is copied
UpdateExisting(existing, job_data, t) == [existing EXCEPT !.last_seen = t]

\* a rollback that leaves the flushed work in the table
RolledBackKeepsFlushed(committed, rows) == SelectSeq(rows, LAMBDA r : r.flushed)

\* What the store holds after session.rollback(): the committed rows.
RolledBack(committed, rows) == committed

\* What the store holds after session.commit(): the session's rows.
Committed(committed, rows) == rows

Items == { JobRecord(v, url, loc, at) :
             v \in Versions, url \in SourceUrls, loc \in Locations, at \in {0} }

Postings(t) == { [j EXCEPT !.scraped_at = at] : j \in Items, at \in 0..t }

Idle == pc \in {"idle", "returned", "raised"}

\* add_jobs is called: a session opens on the committed rows.
BeginCall ==
    /\ Idle
    /\ ncalls < MaxCalls
    /\ pc' = "running"
    /\ ncalls' = ncalls + 1
    /\ prev' = IF pc = "returned" /\ Len(batch) = 1
               THEN [batch |-> batch, outcome |-> pc, result |-> result,
                     before |-> dbBefore]
               ELSE NoCall
    /\ sess' = db
    /\ dbBefore' = db
    /\ batch' = <<>>
    /\ new_count' = 0
    /\ updated_count' = 0
    /\ result' = NoResult
    /\ UNCHANGED <<now, dbskew, db>>
    /\ UNCHANGED <<govVars, payVars, queryVars, runVars, writerVars>>

\* One turn of the loop over jobs, for the posting job_data.
HandleItem(job_data) ==
    /\ pc = "running"
    /\ Len(batch) < MaxItems
    /\ LET rows == IF Truthy(job_data.source_url) THEN Autoflush(sess, DbNow) ELSE sess
           existing == Existing(rows, job_data)
           loc == parse_location(job_data.location)
       IN  IF existing # 0
           THEN /\ sess' = [rows EXCEPT ![existing] = UpdateExisting(rows[existing], job_data, now)]
                /\ updated_count' = updated_count + 1
                /\ batch' = Append(batch, [job |-> job_data, op |-> "update", row |-> existing])
                /\ UNCHANGED <<pc, new_count, result, db>>
           ELSE IF loc.raised
           THEN \* the exception leaves the loop: rollback, close, re-raise
                /\ pc' = "raised"
                /\ db' = RolledBack(db, rows)
                /\ sess' = <<>>
                /\ batch' = Append(batch, [job |-> job_data, op |-> "raise", row |-> 0])
                /\ UNCHANGED <<new_count, updated_count, result>>
           ELSE /\ sess' = Append(rows, NewJob(job_data, loc.city, loc.state))
                /\ new_count' = new_count + 1
                /\ batch' = Append(batch, [job |-> job_data, op |-> "insert",
                                           row |-> Len(rows) + 1])
                /\ UNCHANGED <<pc, updated_count, result, db>>
    /\ UNCHANGED <<now, dbskew, dbBefore, prev, ncalls>>
    /\ UNCHANGED <<govVars, payVars, queryVars, runVars, writerVars>>

\* The loop ends: session.commit(), and the counts are returned.
Commit ==
    /\ pc = "running"
    /\ pc' = "returned"
    /\ db' = Committed(db, Flush(sess, DbNow))
    /\ sess' = <<>>
    /\ result' = <<new_count, updated_count>>
    /\ UNCHANGED <<now, dbskew, batch, new_count, updated_count, dbBefore, prev, ncalls>>
    /\ UNCHANGED <<govVars, payVars, queryVars, runVars, writerVars>>

\* A query, flush or commit fails in the database (StoreFailure): rollback,
\* close, re-raise.
StoreError ==
    /\ pc = "running"
    /\ pc' = "raised"
    /\ db' = RolledBack(db, sess)
    /\ sess' = <<>>
    /\ UNCHANGED <<now, dbskew, batch, new_count, updated_count, result, dbBefore, prev,
                   ncalls>>
    /\ UNCHANGED <<govVars, payVars, queryVars, runVars, writerVars>>

Tick ==
    /\ now < MaxTime
    /\ now' = now + 1
    /\ UNCHANGED <<dbskew, db, sess, pc, batch, new_count, updated_count, result,
                   dbBefore, prev, ncalls>>
    /\ UNCHANGED <<govVars, payVars, queryVars, runVars, writerVars>>

----------------------------------------------------------------------------
(* DatabaseManager.get_jobs *)

NoListing == [made |-> FALSE, source |-> NoneText, limit |-> 0, ids |-> <<>>]

\* the filters of get_jobs followed here: none, or a source
SourceFilters == {NoneText} \cup {<<"source", v>> : v \in Versions}

\* the ids of the rows a filter keeps
Matching(rows, source) ==
    {i \in DOMAIN rows : source = NoneText \/ rows[i].source = source}

\* every way of putting a set of ids in a row
Orderings(ids) ==
    {p \in [1..Cardinality(ids) -> ids] : \A k, l \in DOMAIN p : k # l => p[k] # p[l]}

\* ORDER BY scraped_at DESC: rows of equal scraped_at come in any order
ByScrapedAtDesc(rows, p) ==
    \A k, l \in DOMAIN p : k < l => rows[p[k]].scraped_at >= rows[p[l]].scraped_at

\* what get_jobs(filters, limit) can return: the ids of the first limit rows
\* of the filtered query in its order
get_jobs(rows, source, limit) ==
    {SubSeq(p, 1, IF limit < Len(p) THEN limit ELSE Len(p)) :
        p \in {q \in Orderings(Matching(rows, source)) : ByScrapedAtDesc(rows, q)}}

\* get_jobs is called
GetJobs(source, limit) ==
    /\ pc \in {"idle", "returned", "raised"}
    /\ ~listing.made
    /\ \E ids \in get_jobs(db, source, limit) :
          listing' = [made |-> TRUE, source |-> source, limit |-> limit, ids |-> ids]
    /\ UNCHANGED <<storeVars, govVars, payVars, runVars, writerVars>>

\* The row add_jobs left for a posting inserted at time first and, where
\* seen > first, found again at time seen.
StoredRow(v, url, first, seen) ==
    LET job_data == JobRecord(v, url, <<"b", ",", " ", "m">>, first)
        place    == parse_location(job_data.location)
        inserted == Flush(<<NewJob(job_data, place.city, place.state)>>, first)[1]
    IN  IF seen > first THEN UpdateExisting(inserted, job_data, seen) ELSE inserted

\* the source_url of the k-th row: the third posting has none
UrlOfRow(k) == IF k = 1 THEN "http://x/1" ELSE IF k = 2 THEN "http://x/2" ELSE NoneVal

\* Tables add_jobs can have left: rows in the order they were inserted, each
\* seen last no earlier than it was inserted, a row without a url never
\* seen again.
Tables ==
    UNION { {t \in [1..n -> [v : Versions, first : 0..MaxSeen, seen : 0..MaxSeen]] :
               /\ \A k \in 1..n : t[k].first <= t[k].seen
               /\ \A k \in 1..n : UrlOfRow(k) = NoneVal => t[k].seen = t[k].first
               /\ \A k \in 1..(n - 1) : t[k].first <= t[k + 1].first}
            : n \in 0..MaxRows }

TableRows(t) == [k \in DOMAIN t |-> StoredRow(t[k].v, UrlOfRow(k), t[k].first, t[k].seen)]

----------------------------------------------------------------------------
(* PayNormalizer: regular expressions *)

\* A pay text is a sequence of characters; LongDigits is a run of 30 nines,
\* kept as one element.
LongDigits == "999999999999999999999999999999"
Digits == {"0", "1", "2", "3", "4", "5", "6", "7", "8", "9", LongDigits}
Space == {" "}

\* str.lower() on the letters pay texts carry
Lower(s) == [i \in DOMAIN s |-> IF s[i] = "K" THEN "k" ELSE s[i]]

\* Pattern nodes: a character class, a literal, a sequence, an ordered
\* alternation, a greedy ?, + or *, and a capturing group.
Class(set) == [op |-> "set", set |-> set]
Cat(items) == [op |-> "seq", items |-> items]
Lit(text) == Cat([k \in DOMAIN text |-> Class({text[k]})])
Alt(items) == [op |-> "alt", items |-> items]
Opt(node) == [op |-> "opt", of |-> node]
Plus(node) == [op |-> "plus", of |-> node]
Star(node) == [op |-> "opt", of |-> [op |-> "plus", of |-> node]]
Group(n, node) == [op |-> "group", n |-> n, of |-> node]

NoGroups == <<NoneText, NoneText>>

RECURSIVE Match(_, _, _, _)
RECURSIVE MatchEach(_, _, _, _)
RECURSIVE MatchSeq(_, _, _, _)
RECURSIVE MatchAlt(_, _, _, _, _)
RECURSIVE MatchMore(_, _, _, _)

\* The ways node matches s from position i, given the groups captured so
\* far, in the order a backtracking matcher tries them; each way is the
\* position after the match and the groups.
Match(node, s, i, caps) ==
    CASE node.op = "set" ->
            IF i <= Len(s) /\ s[i] \in node.set
            THEN <<[end |-> i + 1, caps |-> caps]>> ELSE <<>>
      [] node.op = "seq" -> MatchSeq(node.items, s, <<[end |-> i, caps |-> caps]>>, 1)
      [] node.op = "alt" -> MatchAlt(node.items, s, i, caps, 1)
      [] node.op = "opt" -> Match(node.of, s, i, caps) \o <<[end |-> i, caps |-> caps]>>
      [] node.op = "plus" -> MatchMore(node, s, Match(node.of, s, i, caps), 1)
      [] node.op = "group" ->
            LET ways == Match(node.of, s, i, caps)
            IN  [k \in DOMAIN ways |->
                    [end |-> ways[k].end,
                     caps |-> [ways[k].caps EXCEPT
                                 ![node.n] = SubSeq(s, i, ways[k].end - 1)]]]

\* node matched from each of the ways, in order
MatchEach(node, s, ways, k) ==
    IF k > Len(ways) THEN <<>>
    ELSE Match(node, s, ways[k].end, ways[k].caps) \o MatchEach(node, s, ways, k + 1)

\* the items from the k-th on, matched one after another
MatchSeq(items, s, ways, k) ==
    IF k > Len(items) THEN ways
    ELSE MatchSeq(items, s, MatchEach(items[k], s, ways, 1), k + 1)

\* the alternatives from the k-th on, in order
MatchAlt(items, s, i, caps, k) ==
    IF k > Len(items) THEN <<>>
    ELSE Match(items[k], s, i, caps) \o MatchAlt(items, s, i, caps, k + 1)

\* greedy repetition: after each way of one more item, first try yet more
MatchMore(node, s, ways, k) ==
    IF k > Len(ways) THEN <<>>
    ELSE Match(node, s, ways[k].end, ways[k].caps) \o <<ways[k]>>
         \o MatchMore(node, s, ways, k + 1)

NoMatch == [matched |-> FALSE, start |-> 0, end |-> 0, caps |-> NoGroups]

RECURSIVE SearchFrom(_, _, _)
\* re.search(pattern, s) from position i on: the leftmost match, and at
\* that position the first way
SearchFrom(pattern, s, i) ==
    IF i > Len(s) + 1 THEN NoMatch
    ELSE LET ways == Match(pattern, s, i, NoGroups)
         IN  IF ways # <<>>
             THEN [matched |-> TRUE, start |-> i, end |-> ways[1].end,
                   caps |-> ways[1].caps]
             ELSE SearchFrom(pattern, s, i + 1)

Search(pattern, s) == SearchFrom(pattern, s, 1)

RECURSIVE FindAllFrom(_, _, _)
\* re.findall(pattern, s) for a pattern with one group: the group of each
\* successive non-overlapping match
FindAllFrom(pattern, s, i) ==
    LET m == SearchFrom(pattern, s, i)
    IN  IF ~m.matched THEN <<>>
        ELSE <<m.caps[1]>> \o FindAllFrom(pattern, s, m.end)

FindAll(pattern, s) == FindAllFrom(pattern, s, 1)

\* [\d,]+(?:\.\d{2})?
Amount ==
    Cat(<<Plus(Class(Digits \cup {","})),
          Opt(Cat(<<Class({"."}), Class(Digits), Class(Digits)>>))>>)

\* \$\s*(amount)\s*(?:-|to|-)?\s*\$?\s*(amount)?\s*
RangePrefix(kmark) ==
    <<Class({"$"}), Star(Class(Space)), Group(1, Amount), Star(Class(Space))>>
    \o kmark
    \o <<Opt(Alt(<<Lit(<<"-">>), Lit(<<"t", "o">>), Lit(<<"endash">>)>>)),
         Star(Class(Space)), Opt(Class({"$"})), Star(Class(Space)),
         Opt(Group(2, Amount))>>

KMark == Opt(Alt(<<Lit(<<"k">>), Lit(<<"K">>)>>))

HOURLY_PATTERN ==
    Cat(RangePrefix(<<>>)
        \o <<Star(Class(Space)),
             Opt(Alt(<<Lit(<<"p", "e", "r">>), Lit(<<"a", "n">>), Lit(<<"/">>),
                       Lit(<<"a">>)>>)),
             Star(Class(Space)),
             Lit(<<"h">>), Opt(Lit(<<"o", "u">>)), Lit(<<"r">>)>>)

WEEKLY_PATTERN ==
    Cat(RangePrefix(<<>>)
        \o <<Star(Class(Space)),
             Opt(Alt(<<Lit(<<"/">>), Lit(<<"p", "e", "r">>), Lit(<<"a">>)>>)),
             Star(Class(Space)),
             Alt(<<Lit(<<"w", "k">>), Lit(<<"w", "e", "e", "k">>)>>)>>)

ANNUAL_PATTERN ==
    Cat(RangePrefix(<<KMark, Star(Class(Space))>>)
        \o <<KMark, Star(Class(Space)),
             Opt(Alt(<<Lit(<<"p", "e", "r">>), Lit(<<"a">>), Lit(<<"/">>)>>)),
             Star(Class(Space)),
             Alt(<<Lit(<<"y", "e", "a", "r">>), Lit(<<"y", "r">>),
                   Lit(<<"a", "n", "n", "u", "a", "l">>)>>)>>)

SIMPLE_DOLLAR == Cat(<<Class({"$"}), Star(Class(Space)), Group(1, Amount)>>)

----------------------------------------------------------------------------
(* PayNormalizer: amounts *)

\* A Decimal is its value in cents; one with LongDigits in it is only known
\* to be big (30 digits or more).  NoDecimal is Python's None.
Dec(cents) == [big |-> FALSE, cents |-> cents]
BigDecimal == [big |-> TRUE, cents |-> 0]
NoDecimal == [big |-> FALSE, cents |-> -1]

\* bool(d) for a Decimal or None
TruthyDec(d) == d # NoDecimal /\ (d.big \/ d.cents # 0)

\* d < n for a Decimal d and a whole number n
DecLess(d, n) == ~d.big /\ d.cents < n * 100

\* a <= b for two Decimals
DecLeq(a, b) == b.big \/ (~a.big /\ a.cents <= b.cents)

DigitValue(c) ==
    CASE c = "0" -> 0 [] c = "1" -> 1 [] c = "2" -> 2 [] c = "3" -> 3 [] c = "4" -> 4
      [] c = "5" -> 5 [] c = "6" -> 6 [] c = "7" -> 7 [] c = "8" -> 8 [] c = "9" -> 9

RECURSIVE NumberOf(_)
\* the whole number a run of digits spells
NumberOf(digits) ==
    IF digits = <<>> THEN 0
    ELSE NumberOf(SubSeq(digits, 1, Len(digits) - 1)) * 10
         + DigitValue(digits[Len(digits)])

\* clean_number(num_str): commas and blanks removed, then Decimal(cleaned);
\* None for None, for '' and for what Decimal rejects
clean_number(num_str) ==
    IF num_str = NoneText \/ num_str = <<>> THEN NoDecimal
    ELSE LET cleaned == SelectSeq(num_str, LAMBDA c : c # "," /\ c # " ")
             dot     == FindFrom(cleaned, ".", 1)
             whole   == IF dot = 0 THEN cleaned ELSE SubSeq(cleaned, 1, dot - 1)
             frac    == IF dot = 0 THEN <<>> ELSE SubSeq(cleaned, dot + 1, Len(cleaned))
         IN  IF cleaned = <<>> \/ cleaned = <<".">> THEN NoDecimal
             ELSE IF \E k \in DOMAIN cleaned : cleaned[k] = LongDigits THEN BigDecimal
             ELSE Dec(NumberOf(whole) * 100
                      + (IF Len(frac) = 2 THEN NumberOf(frac)
                         ELSE IF Len(frac) = 1 THEN NumberOf(frac) * 10 ELSE 0))

\* assumed hours: an int, or a float given in tenths of an hour
IntHours(h) == [type |-> "int", tenths |-> h * 10]
FloatHours(tenths) == [type |-> "float", tenths |-> tenths]

TypeError == [big |-> FALSE, cents |-> -2]
InvalidOperation == [big |-> FALSE, cents |-> -3]
Errors == {TypeError, InvalidOperation}

\* round(n / d, 2) in cents: Decimal.__round__ rounds half to even
RoundHalfEven(n, d) ==
    LET q == n \div d
        r == n % d
    IN  IF 2 * r > d THEN q + 1
        ELSE IF 2 * r = d THEN q + (q % 2)
        ELSE q

\* round(amount / hours, 2): TypeError for Decimal / float, InvalidOperation
\* when the rounded quotient needs more than the context's 28 digits
ToHourly(amount, hours) ==
    IF hours.type = "float" THEN TypeError
    ELSE IF amount.big THEN InvalidOperation
    ELSE Dec(RoundHalfEven(amount.cents * 10, hours.tenths))

----------------------------------------------------------------------------
(* PayNormalizer.normalize *)

NoPay == [status |-> "none", type |-> "none", low |-> NoDecimal, high |-> NoDecimal]
NotRun == [status |-> "pending", type |-> "none", low |-> NoDecimal, high |-> NoDecimal]

\* the dict normalize returns, or the exception that leaves it when a
\* conversion raised
Returned(type, low, high) ==
    IF low \in Errors THEN [status |-> "raised", type |-> "none", low |-> low, high |-> low]
    ELSE IF high \in Errors
    THEN [status |-> "raised", type |-> "none", low |-> high, high |-> high]
    ELSE [status |-> "ok", type |-> type, low |-> low, high |-> high]

\* 'k' in pay_string_lower
HasK(text) == \E i \in DOMAIN text : text[i] = "k"

\* the k suffix rule of the annual branch
TimesThousand(amount, text) ==
    IF TruthyDec(amount) /\ HasK(text) /\ DecLess(amount, 1000)
    THEN Dec(amount.cents * 1000) ELSE amount

\* the first and second amount of a match: low, and high where the second
\* group took part (else low)
Bounds(m) ==
    LET low == clean_number(m.caps[1])
    IN  [low |-> low,
         high |-> IF m.caps[2] # NoneText THEN clean_number(m.caps[2]) ELSE low]

TryHourly(text) ==
    LET m == Search(HOURLY_PATTERN, text)
        b == Bounds(m)
    IN  IF m.matched /\ TruthyDec(b.low)
        THEN Returned("hourly", b.low, IF TruthyDec(b.high) THEN b.high ELSE b.low)
        ELSE NoPay

TryWeekly(text, weekly_hours) ==
    LET m == Search(WEEKLY_PATTERN, text)
        b == Bounds(m)
        hourly_low == ToHourly(b.low, weekly_hours)
    IN  IF m.matched /\ TruthyDec(b.low)
        THEN Returned("weekly_converted", hourly_low,
                      IF TruthyDec(b.high) THEN ToHourly(b.high, weekly_hours)
                      ELSE hourly_low)
        ELSE NoPay

TryAnnual(text, annual_hours) ==
    LET m == Search(ANNUAL_PATTERN, text)
        low == TimesThousand(clean_number(m.caps[1]), text)
        high == TimesThousand(IF m.caps[2] # NoneText THEN clean_number(m.caps[2])
                              ELSE low, text)
        hourly_low == ToHourly(low, annual_hours)
    IN  IF m.matched /\ TruthyDec(low)
        THEN Returned("annual_converted", hourly_low,
                      IF TruthyDec(high) THEN ToHourly(high, annual_hours)
                      ELSE hourly_low)
        ELSE NoPay

\* min(values) and max(values)
MinOf(values) ==
    CHOOSE v \in {values[k] : k \in DOMAIN values} :
        \A k \in DOMAIN values : DecLeq(v, values[k])
MaxOf(values) ==
    CHOOSE v \in {values[k] : k \in DOMAIN values} :
        \A k \in DOMAIN values : DecLeq(values[k], v)

\* the bare-dollar fallback
Fallback(pay_string, weekly_hours, annual_hours) ==
    LET matches == FindAll(SIMPLE_DOLLAR, pay_string)
        cleaned == [k \in DOMAIN matches |-> clean_number(matches[k])]
        values  == SelectSeq(cleaned, TruthyDec)
        min_val == MinOf(values)
        max_val == MaxOf(values)
    IN  IF values = <<>> THEN NoPay
        ELSE IF DecLess(min_val, 200)
        THEN Returned("inferred_hourly", min_val, max_val)
        ELSE IF DecLess(min_val, 5000)
        THEN Returned("inferred_weekly", ToHourly(min_val, weekly_hours),
                      ToHourly(max_val, weekly_hours))
        ELSE Returned("inferred_annual", ToHourly(min_val, annual_hours),
                      ToHourly(max_val, annual_hours))

\* a cascade that tries the weekly pattern before the hourly one
CascadeWeeklyFirst(text, pay_string, weekly_hours, annual_hours) ==
    <<TryWeekly(text, weekly_hours), TryHourly(text), TryAnnual(text, annual_hours),
      Fallback(pay_string, weekly_hours, annual_hours)>>

\* the patterns in the order normalize tries them
Cascade(text, pay_string, weekly_hours, annual_hours) ==
    <<TryHourly(text), TryWeekly(text, weekly_hours), TryAnnual(text, annual_hours),
      Fallback(pay_string, weekly_hours, annual_hours)>>

RECURSIVE FirstYield(_, _)
\* the first of the tries that returned or raised
FirstYield(tries, k) ==
    IF k > Len(tries) THEN NoPay
    ELSE IF tries[k] # NoPay THEN tries[k]
    ELSE FirstYield(tries, k + 1)

\* normalize(pay_string) of a PayNormalizer(weekly_hours, annual_hours)
normalize(pay_string, weekly_hours, annual_hours) ==
    IF pay_string = NoneText \/ pay_string = <<>> THEN NoPay
    ELSE FirstYield(Cascade(Strip(Lower(pay_string)), pay_string,
                            weekly_hours, annual_hours), 1)

----------------------------------------------------------------------------
(* PayNormalizer: the pay texts followed, and the call *)

Amounts ==
    { <<"0">>, <<"4", "5">>, <<"1", ",", "5", "0", "0">>, <<"5", "0", "0", "0">>,
      <<"9", "0", "0", "0">>, <<",">>, <<LongDigits>> }
Fractions == { <<>>, <<".", "5">>, <<".", "5", "0">> }
Marks == { <<>>, <<"k">> }
UpperBounds == { <<>>, <<"-", "5", "5">> }
Units == { <<>>, <<"/", "h", "r">>, <<"/", "w", "e", "e", "k">>, <<"/", "y", "r">> }
Trailers == { <<>>, <<" ", "O", "K">> }

\* "$" amount fraction mark upper-bound unit
Phrase(a, f, k, r, u) == <<"$">> \o a \o f \o k \o r \o u

RichPhrases ==
    { Phrase(a, f, k, r, u) :
        a \in Amounts, f \in Fractions, k \in Marks, r \in UpperBounds, u \in Units }

\* the amounts of the phrases that are put in a row
RowAmounts == { <<"0">>, <<"4", "5">>, <<"1", ",", "5", "0", "0">> }

SimplePhrases ==
    { Phrase(a, <<>>, k, <<>>, u) : a \in RowAmounts, k \in Marks, u \in Units }

RECURSIVE PhraseRuns(_)
\* n simple phrases, one blank between them
PhraseRuns(n) ==
    IF n = 1 THEN SimplePhrases
    ELSE { p \o <<" ">> \o q : p \in SimplePhrases, q \in PhraseRuns(n - 1) }

PayTexts ==
    {NoneText, <<>>}
    \cup { p \o t : p \in RichPhrases \cup UNION { PhraseRuns(n) : n \in 2..MaxPhrases },
                    t \in Trailers }

\* PayNormalizer(assumed_weekly_hours, assumed_annual_hours) as configured
Assumptions ==
    { [weekly |-> IntHours(36), annual |-> IntHours(2080)],
      [weekly |-> IntHours(40), annual |-> IntHours(2000)],
      [weekly |-> FloatHours(375), annual |-> IntHours(1950)] }

DefaultAssumptions == [weekly |-> IntHours(36), annual |-> IntHours(2080)]

\* normalizer.normalize(pay_string) is called
Normalize ==
    /\ normalized = NotRun
    /\ normalized' = normalize(pay_text, assumed_weekly_hours, assumed_annual_hours)
    /\ UNCHANGED <<pay_text, assumed_weekly_hours, assumed_annual_hours>>
    /\ UNCHANGED <<storeVars, govVars, queryVars, runVars, writerVars>>

InitPay ==
    /\ pay_text \in PayTexts
    /\ \E a \in Assumptions :
          assumed_weekly_hours = a.weekly /\ assumed_annual_hours = a.annual
    /\ normalized = NotRun

\* no pay text at hand: the normalizer's state when the other parts are looked at
PayAtRest ==
    /\ pay_text = NoneText
    /\ assumed_weekly_hours = DefaultAssumptions.weekly
    /\ assumed_annual_hours = DefaultAssumptions.annual
    /\ normalized = NotRun

----------------------------------------------------------------------------
(* BaseScraper: robots.txt *)

MIN_DELAY == 3
MAX_DELAY == 7
CautionDelay == 2
HighRate == 15
LowRate == 10
HighPenalty == 10
LowPenalty == 5
ScrollPause == 1
max_pages == 2
PageSize == 10

Origins == {"www.indeed.com", "www.vivian.com"}

\* A url is its origin (scheme and netloc) and its target (path and query).
BuildUrl(job_type, city, start) ==
    [origin |-> "www.indeed.com", target |-> <<"jobs", job_type, city, start>>]

\* The Disallow lines a robots.txt may carry, as prefixes of the target:
\* none, every search, the searches for job type 1
DisallowSets == { {}, {<<"jobs">>}, {<<"jobs", 1>>} }

\* Crawl-delay values a robots.txt may carry; 0 stands for no such line
CrawlDelays == {0, 5, 9}

\* What a server answers for /robots.txt when it is reached: the file, or
\* an HTTP error status.
Answers ==
    {[kind |-> "ok", disallow |-> d, delay |-> c] :
        d \in DisallowSets, c \in CrawlDelays}
    \cup {[kind |-> k, disallow |-> {}, delay |-> 0] :
            k \in {"forbidden", "missing", "server_error"}}

NoParser == [origin |-> "none", state |-> "none", disallow |-> {}, delay |-> 0]

\* RobotFileParser() and set_url: nothing read yet
NewParser(o) == [origin |-> o, state |-> "unread", disallow |-> {}, delay |-> 0]

\* RobotFileParser.read() when the server answers: 401/403 disallow all,
\* other 4xx allow all, any other error status leaves the parser unread.
ReadAnswer(o) ==
    LET a == robots[o]
    IN  CASE a.kind = "ok" ->
               [origin |-> o, state |-> "parsed", disallow |-> a.disallow,
                delay |-> a.delay]
          [] a.kind = "forbidden" ->
               [origin |-> o, state |-> "disallow_all", disallow |-> {}, delay |-> 0]
          [] a.kind = "missing" ->
               [origin |-> o, state |-> "allow_all", disallow |-> {}, delay |-> 0]
          [] OTHER -> NewParser(o)

IsPrefix(p, t) == Len(p) <= Len(t) /\ SubSeq(t, 1, Len(p)) = p

\* RobotFileParser.can_fetch("*", url): only the target of url is matched,
\* against whatever rules the parser holds.
CanFetch(parser, url) ==
    CASE parser.state = "disallow_all" -> FALSE
      [] parser.state = "allow_all" -> TRUE
      [] parser.state = "parsed" -> ~ \E p \in parser.disallow : IsPrefix(p, url.target)
      [] OTHER -> FALSE

\* the except branch of check_robots_txt: time.sleep(2); return True
OnCheckError == [allowed |-> TRUE, slept |-> CautionDelay]

\* the parser check_robots_txt consults for url: the cached one once a
\* robots.txt has been read, else a new one for url's origin
ParserFor(url) ==
    IF robots_checked THEN robots_parser ELSE ReadAnswer(url.origin)

\* check_robots_txt(url); net tells whether the robots.txt request gets
\* through ("up") or raises (a transport error, "down").
check_robots_txt(url, net) ==
    IF ~respect_robots
    THEN [allowed |-> TRUE, parser |-> robots_parser, checked |-> robots_checked,
          slept |-> 0, fetch |-> "none", used |-> "none"]
    ELSE IF ~robots_checked /\ net = "down"
    THEN [allowed |-> OnCheckError.allowed, parser |-> NewParser(url.origin),
          checked |-> FALSE, slept |-> OnCheckError.slept, fetch |-> "raised",
          used |-> "none"]
    ELSE LET parser == ParserFor(url)
         IN  [allowed |-> CanFetch(parser, url), parser |-> parser, checked |-> TRUE,
              slept |-> 0, fetch |-> IF robots_checked THEN "none" ELSE "read",
              used |-> parser.origin]

\* the robots.txt files read, after a check of url
ReadsAfter(url, chk) ==
    IF chk.fetch = "read" THEN [reads EXCEPT ![url.origin] = @ + 1] ELSE reads

\* The record of one check_robots_txt(url) call: its verdict, whether it
\* requested robots.txt ("read", "raised" or "none"), the origin whose rules
\* it consulted, and the clock when it was called and when it returned.
CheckRecord(url, chk) ==
    [made |-> TRUE, url |-> url, allowed |-> chk.allowed, fetch |-> chk.fetch,
     used |-> chk.used, began |-> clock, ended |-> clock + chk.slept]

NoCheck ==
    [made |-> FALSE, url |-> BuildUrl(0, 0, 0), allowed |-> TRUE, fetch |-> "none",
     used |-> "none", began |-> 0, ended |-> 0]

----------------------------------------------------------------------------
(* BaseScraper: pacing *)

Max(a, b) == IF a >= b THEN a ELSE b

\* RobotFileParser.crawl_delay("*"): None (0 here) unless a file was parsed
CrawlDelayOf(parser) == IF parser.state = "parsed" THEN parser.delay ELSE 0

\* the values random.uniform(lo, hi) is followed through: its two ends
Draws(lo, hi) == {lo, hi}

\* get_crawl_delay(); r is the value random.uniform(MIN_DELAY, MAX_DELAY) draws
get_crawl_delay(parser, r) ==
    IF parser # NoParser /\ CrawlDelayOf(parser) # 0
    THEN Max(CrawlDelayOf(parser), MIN_DELAY)
    ELSE r

\* random_delay(min_seconds, max_seconds): the seconds slept; r1 and r2 are
\* the values the two random.uniform calls draw
random_delay(parser, min_seconds, max_seconds, r1, r2) ==
    LET robots_delay == get_crawl_delay(parser, r1)
    IN  IF robots_delay > max_seconds THEN robots_delay ELSE r2

\* a log_request that never sleeps the large penalty
RatePenaltyFlat(count, elapsed) ==
    IF elapsed > 0 /\ count * 60 > LowRate * elapsed THEN LowPenalty ELSE 0

\* log_request: the extra sleep for request number count, elapsed seconds
\* after session_start
RatePenalty(count, elapsed) ==
    IF elapsed > 0 /\ count * 60 > HighRate * elapsed THEN HighPenalty
    ELSE IF elapsed > 0 /\ count * 60 > LowRate * elapsed THEN LowPenalty
    ELSE 0

----------------------------------------------------------------------------
(* BaseScraper.get_page *)

\* a get_page that logs and loads before it looks at the verdict
PageOutcomeUnchecked(allowed, load) ==
    [counted |-> TRUE,
     goto    |-> TRUE,
     content |-> IF allowed /\ load = "ok" THEN "soup" ELSE "none",
     paced   |-> allowed /\ load = "ok"]

\* What get_page does once the robots verdict is in: whether the request is
\* logged, whether page.goto is called, what is returned, whether
\* random_delay runs.  load is how page.goto ends.
PageOutcome(allowed, load) ==
    [counted |-> allowed,
     goto    |-> allowed,
     content |-> IF allowed /\ load = "ok" THEN "soup" ELSE "none",
     paced   |-> allowed /\ load = "ok"]

NoPage ==
    [made |-> FALSE, url |-> BuildUrl(0, 0, 0), allowed |-> TRUE, counted |-> FALSE,
     goto |-> FALSE, content |-> "none", requests_before |-> 0, penalty |-> 0,
     delay |-> 0, started |-> 0, ended |-> 0, paced |-> FALSE, fetch |-> "none",
     crawl_delay |-> 0, elapsed |-> 0, goto_at |-> 0, last_goto_at |-> -1]

\* The record of one get_page(url) call: what it did, the clock when it was
\* called and when it returned, whether random_delay ran (paced) and for
\* how long (delay), how the robots.txt request of its check went (fetch),
\* the crawl delay of the parser it held, the session time log_request saw,
\* the clock when page.goto was issued (goto_at) and when the instance's
\* page.goto before this call was (last_goto_at, -1 for none).
PageRecord(url, net, load, took, r1, r2) ==
    LET chk == check_robots_txt(url, net)
        out == PageOutcome(chk.allowed, load)
        penalty == IF out.counted
                   THEN RatePenalty(request_count + 1, clock + chk.slept) ELSE 0
        delay == IF out.paced
                 THEN random_delay(chk.parser, MIN_DELAY, MAX_DELAY, r1, r2) ELSE 0
        pause == IF out.paced THEN ScrollPause ELSE 0
        spent == IF out.goto THEN took ELSE 0
    IN  [made |-> TRUE, url |-> url, allowed |-> chk.allowed, counted |-> out.counted,
         goto |-> out.goto, content |-> out.content,
         requests_before |-> request_count, penalty |-> penalty, delay |-> delay,
         started |-> clock,
         ended |-> clock + chk.slept + penalty + spent + delay + pause,
         paced |-> out.paced, fetch |-> chk.fetch,
         crawl_delay |-> CrawlDelayOf(chk.parser), elapsed |-> clock + chk.slept,
         goto_at |-> IF out.goto THEN clock + chk.slept + penalty ELSE 0,
         last_goto_at |-> IF lastPage.goto THEN lastPage.goto_at ELSE lastPage.last_goto_at]

\* get_page(url) as a step of the governor
GetPage(url, net, load, took, r1, r2) ==
    LET chk == check_robots_txt(url, net)
        rec == PageRecord(url, net, load, took, r1, r2)
    IN  /\ robots_parser' = chk.parser
        /\ robots_checked' = chk.checked
        /\ reads' = ReadsAfter(url, chk)
        /\ lastCheck' = CheckRecord(url, chk)
        /\ lastPage' = rec
        /\ request_count' = IF rec.counted THEN request_count + 1 ELSE request_count
        /\ clock' = rec.ended

----------------------------------------------------------------------------
(* IndeedScraper.scrape, and direct callers of check_robots_txt *)

\* the loop's next position after a page that did not end the job type
NextPage(pos) ==
    IF pos.page + 1 < max_pages
    THEN [pos EXCEPT !.page = pos.page + 1]
    ELSE [pos EXCEPT !.job_type = pos.job_type + 1, !.page = 0]

\* the loop's position after get_page returned content: "continue" on no
\* soup, "break" on a page without job cards, else the next page
AfterPage(pos, content, cards) ==
    IF content = "none" THEN NextPage(pos)
    ELSE IF cards = "none" THEN [pos EXCEPT !.job_type = pos.job_type + 1, !.page = 0]
    ELSE NextPage(pos)

\* scraper.scrape(city, state) is called for the next city.
StartScrape ==
    /\ ~scrape.active
    /\ scrape.city < MaxCities
    /\ scrape' = [active |-> TRUE, city |-> scrape.city + 1, job_type |-> 1, page |-> 0]
    /\ UNCHANGED <<respect_robots, robots, robots_parser, robots_checked, request_count,
                   clock, reads, lastCheck, lastPage, skipped, reasked, checks>>
    /\ UNCHANGED <<storeVars, payVars, queryVars, runVars, writerVars>>

\* One turn of the loop over job types and pages.
ScrapeStep ==
    /\ scrape.active
    /\ scrape.job_type <= MaxJobTypes
    /\ LET url == BuildUrl(scrape.job_type, scrape.city, scrape.page * PageSize)
       IN  /\ \E net \in {"up", "down"}, load \in {"ok", "error"}, took \in 0..MaxLoad,
                 r1 \in Draws(MIN_DELAY, MAX_DELAY), r2 \in Draws(MIN_DELAY, MAX_DELAY) :
                 GetPage(url, net, load, took, r1, r2)
           /\ \E cards \in {"some", "none"} :
                 scrape' = AfterPage(scrape, lastPage'.content, cards)
           /\ skipped' = IF lastPage'.allowed THEN skipped ELSE skipped \cup {url}
           /\ reasked' = (reasked \/ url \in skipped)
    /\ UNCHANGED <<respect_robots, robots, checks>>
    /\ UNCHANGED <<storeVars, payVars, queryVars, runVars, writerVars>>

\* The loop is over: scrape returns its jobs.
EndScrape ==
    /\ scrape.active
    /\ scrape.job_type > MaxJobTypes
    /\ scrape' = [scrape EXCEPT !.active = FALSE]
    /\ UNCHANGED <<respect_robots, robots, robots_parser, robots_checked, request_count,
                   clock, reads, lastCheck, lastPage, skipped, reasked, checks>>
    /\ UNCHANGED <<storeVars, payVars, queryVars, runVars, writerVars>>

DirectUrls ==
    {[origin |-> o, target |-> <<"jobs", t, 1, 0>>] : o \in Origins, t \in 1..MaxJobTypes}

\* check_robots_txt(url) called on its own, for any url
CheckUrl(url, net) ==
    /\ ~scrape.active
    /\ checks < MaxChecks
    /\ checks' = checks + 1
    /\ LET chk == check_robots_txt(url, net)
       IN  /\ robots_parser' = chk.parser
           /\ robots_checked' = chk.checked
           /\ reads' = ReadsAfter(url, chk)
           /\ lastCheck' = CheckRecord(url, chk)
           /\ clock' = clock + chk.slept
    /\ UNCHANGED <<respect_robots, robots, request_count, lastPage, scrape, skipped,
                   reasked>>
    /\ UNCHANGED <<storeVars, payVars, queryVars, runVars, writerVars>>

\* BaseScraper.__init__, in a world of servers
InitGov ==
    /\ respect_robots \in BOOLEAN
    /\ robots \in [Origins -> Answers]
    /\ robots_parser = NoParser
    /\ robots_checked = FALSE
    /\ request_count = 0
    /\ clock = 0
    /\ reads = [o \in Origins |-> 0]
    /\ lastCheck = NoCheck
    /\ lastPage = NoPage
    /\ scrape = [active |-> FALSE, city |-> 0, job_type |-> 1, page |-> 0]
    /\ skipped = {}
    /\ reasked = FALSE
    /\ checks = 0

\* no scraper at work: the governor's state when only the store is looked at
GovAtRest ==
    /\ respect_robots = TRUE
    /\ robots = [o \in Origins |-> [kind |-> "missing", disallow |-> {}, delay |-> 0]]
    /\ robots_parser = NoParser
    /\ robots_checked = FALSE
    /\ request_count = 0
    /\ clock = 0
    /\ reads = [o \in Origins |-> 0]
    /\ lastCheck = NoCheck
    /\ lastPage = NoPage
    /\ scrape = [active |-> FALSE, city |-> 0, job_type |-> 1, page |-> 0]
    /\ skipped = {}
    /\ reasked = FALSE
    /\ checks = 0

----------------------------------------------------------------------------
(* run_scraper (src/main.py): construction of the scrapers, the scrape    *)
(* loop over cities and sources, normalization, AI enrichment, storage,   *)
(* export                                                                  *)

TruthyText(s) == s # NoneText /\ s # <<>>

\* the scraper names run_scraper knows, in the order of its if-statements
ConstructionOrder == <<"indeed", "vivian", "ziprecruiter", "aya", "intelycare">>
ScraperNames == {ConstructionOrder[i] : i \in DOMAIN ConstructionOrder}

\* scrapers_to_use when the caller passes None
DefaultScrapers == {"indeed", "vivian", "aya", "intelycare"}

\* whether the class's __init__ has a respect_robots parameter
AcceptsRespectRobots(name) == name \in {"indeed", "vivian"}

\* The scrapers dict after the construction block, or the TypeError of the
\* first constructor that is handed a keyword it does not have.
Constructed(scrapers_to_use, respect) ==
    LET chosen == SelectSeq(ConstructionOrder, LAMBDA n : n \in scrapers_to_use)
    IN  IF \E i \in DOMAIN chosen : ~AcceptsRespectRobots(chosen[i])
        THEN [raised |-> TRUE, scrapers |-> <<>>]
        ELSE [raised |-> FALSE,
              scrapers |-> [i \in DOMAIN chosen |->
                              [name |-> chosen[i], respect_robots |-> respect]]]

\* [:20] of jobs_to_parse
AiCap == 20

\* the (city, state) pairs of a run
RunCities == [i \in 1..MaxRunCities |-> [city |-> <<"city", i>>, state |-> <<"state", i>>]]

Unparseable == <<"D", "O", "E">>
HourlyText == Phrase(<<"4", "5">>, <<>>, <<>>, <<>>, <<"/", "h", "r">>)
HugeText == Phrase(<<LongDigits>>, <<>>, <<>>, <<>>, <<"/", "w", "e", "e", "k">>)

\* A posting as a scraper's scrape() returns it: the keys of
\* create_job_record, no city, state or structured pay yet.
Scraped(v, url, loc, pay_raw, specialty) ==
    [JobRecord(v, url, loc, 0) EXCEPT
        !.pay_raw = pay_raw, !.specialty = specialty,
        !.city = NoneText, !.state = NoneText,
        !.pay_rate_low = NoDecimal, !.pay_rate_high = NoDecimal,
        !.pay_type = NoneVal]

\* the postings a scrape can find
Found ==
    { Scraped(1, "http://x/1", <<"b", ",", " ", "m">>, Unparseable, NoneText),
      Scraped(2, "http://x/1", <<"b", ",", " ", "m">>, HourlyText, NoneText),
      Scraped(1, NoneVal, <<"b", ",", " ", "m">>, HourlyText, <<"specialty", 1>>),
      Scraped(2, NoneVal, <<"b", ",", " ", "m">>, HugeText, NoneText),
      Scraped(1, "http://x/2", <<"b", ",">>, NoneText, NoneText) }

\* What one scraper.scrape(city, state) gives run_scraper: an exception, or
\* a list of postings (empty when every page load failed or was refused).
ScrapeOutcomes ==
    {[raised |-> TRUE, jobs |-> <<>>], [raised |-> FALSE, jobs |-> <<>>]}
    \cup {[raised |-> FALSE, jobs |-> <<j>>] : j \in Found}

\* the for-loop that writes the search city and state onto each posting
WithCity(jobs, c) == [i \in DOMAIN jobs |-> [jobs[i] EXCEPT !.city = c.city, !.state = c.state]]

\* One turn of the normalization loop: the posting after it, given what
\* normalize returned.
\* a loop that drops the raw text it could not read
NormalizedJobDropsRaw(job, n) ==
    IF n.status = "ok"
    THEN [job EXCEPT !.pay_rate_low = n.low, !.pay_rate_high = n.high, !.pay_type = n.type]
    ELSE [job EXCEPT !.pay_raw = NoneText]

NormalizedJob(job, n) ==
    IF n.status = "ok"
    THEN [job EXCEPT !.pay_rate_low = n.low, !.pay_rate_high = n.high, !.pay_type = n.type]
    ELSE job

\* normalize, with the hours of PayNormalizer(), on the pay texts a scrape
\* can find
FoundPay ==
    [t \in {j.pay_raw : j \in Found} |->
        normalize(t, DefaultAssumptions.weekly, DefaultAssumptions.annual)]

\* what normalizer.normalize(job['pay_raw']) gives for a posting
NormalizedPay(job) == FoundPay[job.pay_raw]

\* The normalization loop over all_jobs: the postings after it, or the
\* exception that leaves the loop (and run_scraper) when normalize raises.
NormalizeAll(jobs) ==
    LET pay == [i \in DOMAIN jobs |->
                  IF TruthyText(jobs[i].pay_raw) THEN NormalizedPay(jobs[i]) ELSE NoPay]
    IN  [raised |-> \E i \in DOMAIN jobs : pay[i].status = "raised",
         pay |-> pay,
         jobs |-> [i \in DOMAIN jobs |-> NormalizedJob(jobs[i], pay[i])]]

\* What AIJobParser.parse returns for one posting: None (an API error or
\* bad JSON), or a dict; a key the dict lacks reads as None.
NotAsked ==
    [asked |-> FALSE, parsed |-> FALSE, pay_rate_low |-> NoDecimal,
     pay_rate_high |-> NoDecimal, pay_type |-> NoneVal, specialty |-> NoneText,
     shift_type |-> NoneText, employment_type |-> NoneText]

AIAnswers ==
    { [NotAsked EXCEPT !.asked = TRUE],
      [NotAsked EXCEPT !.asked = TRUE, !.parsed = TRUE, !.specialty = <<"specialty", 3>>],
      [NotAsked EXCEPT !.asked = TRUE, !.parsed = TRUE, !.specialty = <<"specialty", 3>>,
                       !.shift_type = <<"shift_type", 3>>,
                       !.pay_rate_low = Dec(5000), !.pay_rate_high = Dec(6000),
                       !.pay_type = "travel"] }

\* a or b for two optional texts
OrElse(a, b) == IF TruthyText(a) THEN a ELSE b

\* job.update({...}) of parse_batch for a posting parse() answered
Enriched(job, parsed) ==
    IF ~parsed.parsed THEN job
    ELSE [job EXCEPT
            !.pay_rate_low = parsed.pay_rate_low,
            !.pay_rate_high = parsed.pay_rate_high,
            !.pay_type = parsed.pay_type,
            !.specialty = OrElse(parsed.specialty, job.specialty),
            !.shift_type = OrElse(parsed.shift_type, job.shift_type),
            !.employment_type = OrElse(parsed.employment_type, job.employment_type)]

\* jobs_to_parse: the first AiCap postings with pay text and no specialty
JobsToParse(jobs) ==
    LET wanted == {i \in DOMAIN jobs :
                      TruthyText(jobs[i].pay_raw) /\ ~TruthyText(jobs[i].specialty)}
    IN  {i \in wanted : Cardinality({j \in wanted : j < i}) < AiCap}

\* parse_batch over jobs_to_parse; the dicts are those of all_jobs, so the
\* update shows there
ParseBatch(jobs, answers) ==
    [i \in DOMAIN jobs |-> IF answers[i].asked THEN Enriched(jobs[i], answers[i]) ELSE jobs[i]]

RECURSIVE AddJobsFrom(_, _, _, _, _)
\* add_jobs from item i on: rows are what the session sees, ops what was
\* done for the items before i
AddJobsFrom(committed, rows, ops, jobs, i) ==
    IF i > Len(jobs)
    THEN [raised |-> FALSE, rows |-> Committed(committed, Flush(rows, DbNow)), ops |-> ops]
    ELSE LET job_data == jobs[i]
             seen == IF Truthy(job_data.source_url) THEN Autoflush(rows, DbNow) ELSE rows
             existing == Existing(seen, job_data)
             loc == parse_location(job_data.location)
         IN  IF existing # 0
             THEN AddJobsFrom(committed,
                              [seen EXCEPT ![existing] =
                                  UpdateExisting(seen[existing], job_data, now)],
                              Append(ops, [op |-> "update", row |-> existing]), jobs, i + 1)
             ELSE IF loc.raised
             THEN [raised |-> TRUE, rows |-> RolledBack(committed, seen),
                   ops |-> Append(ops, [op |-> "raise", row |-> 0])]
             ELSE AddJobsFrom(committed, Append(seen, NewJob(job_data, loc.city, loc.state)),
                              Append(ops, [op |-> "insert", row |-> Len(seen) + 1]),
                              jobs, i + 1)

\* db.add_jobs(all_jobs) as one call on the committed rows
add_jobs(committed, jobs) == AddJobsFrom(committed, committed, <<>>, jobs, 1)

NotSaved == [status |-> "none", rows |-> <<>>, ops |-> <<>>]

\* The construction block: scrapers is filled, or the TypeError leaves
\* run_scraper.
Construct ==
    /\ run_pc = "start"
    /\ LET c == Constructed(args.scrapers_to_use, args.respect_robots)
       IN  /\ scrapers' = c.scrapers
           /\ run_pc' = IF c.raised THEN "raised" ELSE "scraping"
    /\ UNCHANGED <<args, visits, all_jobs, jobs_scraped, jobs_before_ai, pay_found,
                   ai_parsed, saved, returned>>
    /\ UNCHANGED <<storeVars, govVars, payVars, queryVars, writerVars>>

\* the visits of the nested loop: every scraper for the first city, then
\* every scraper for the next
VisitAt(k) ==
    [city |-> RunCities[((k - 1) \div Len(scrapers)) + 1],
     name |-> scrapers[((k - 1) % Len(scrapers)) + 1].name]

VisitsDue == Len(RunCities) * Len(scrapers)

\* One turn of the inner loop: scraper.scrape(city, state) inside the try.
Visit(outcome) ==
    /\ run_pc = "scraping"
    /\ Len(visits) < VisitsDue
    /\ LET v == VisitAt(Len(visits) + 1)
       IN  /\ visits' = Append(visits, [city |-> v.city, name |-> v.name,
                                        raised |-> outcome.raised])
           /\ all_jobs' = all_jobs \o WithCity(outcome.jobs, v.city)
    /\ UNCHANGED <<args, run_pc, scrapers, jobs_scraped, jobs_before_ai, pay_found,
                   ai_parsed, saved, returned>>
    /\ UNCHANGED <<storeVars, govVars, payVars, queryVars, writerVars>>

\* The loops are over: the normalization loop runs on all_jobs.
NormalizePay ==
    /\ run_pc = "scraping"
    /\ Len(visits) = VisitsDue
    /\ LET n == NormalizeAll(all_jobs)
       IN  /\ all_jobs' = n.jobs
           /\ pay_found' = n.pay
           /\ run_pc' = IF n.raised THEN "raised" ELSE "normalized"
    /\ jobs_scraped' = all_jobs
    /\ UNCHANGED <<args, scrapers, visits, jobs_before_ai, ai_parsed, saved, returned>>
    /\ UNCHANGED <<storeVars, govVars, payVars, queryVars, writerVars>>

\* The AI step: skipped without use_ai_parsing or an API key, else
\* parse_batch on jobs_to_parse, parse() answering each posting somehow.
Enrich ==
    /\ run_pc = "normalized"
    /\ run_pc' = "enriched"
    /\ jobs_before_ai' = all_jobs
    /\ IF args.use_ai_parsing
       THEN \E answers \in [DOMAIN all_jobs -> AIAnswers \cup {NotAsked}] :
               /\ \A i \in DOMAIN all_jobs : answers[i].asked <=> i \in JobsToParse(all_jobs)
               /\ ai_parsed' = answers
               /\ all_jobs' = ParseBatch(all_jobs, answers)
       ELSE /\ ai_parsed' = [i \in DOMAIN all_jobs |-> NotAsked]
            /\ UNCHANGED all_jobs
    /\ UNCHANGED <<args, pay_found, scrapers, visits, jobs_scraped, saved, returned>>
    /\ UNCHANGED <<storeVars, govVars, payVars, queryVars, writerVars>>

\* The storage step: add_jobs inside the try; a database that cannot be
\* reached, or add_jobs raising, is printed and the run goes on.
Save(reachable) ==
    /\ run_pc = "enriched"
    /\ run_pc' = "saved"
    /\ LET a == add_jobs(db, all_jobs)
       IN  /\ saved' = IF ~reachable THEN [NotSaved EXCEPT !.status = "failed"]
                       ELSE [status |-> IF a.raised THEN "failed" ELSE "ok",
                             rows |-> a.rows, ops |-> a.ops]
           /\ db' = IF reachable THEN a.rows ELSE db
    /\ UNCHANGED <<args, scrapers, visits, all_jobs, jobs_scraped, jobs_before_ai,
                   pay_found, ai_parsed, returned>>
    /\ UNCHANGED <<now, dbskew, sess, pc, batch, new_count, updated_count, result,
                   dbBefore, prev, ncalls>>
    /\ UNCHANGED <<govVars, payVars, queryVars, writerVars>>

\* Export, notification and summary; run_scraper returns all_jobs.
Finish ==
    /\ run_pc = "saved"
    /\ run_pc' = "returned"
    /\ returned' = all_jobs
    /\ UNCHANGED <<args, scrapers, visits, all_jobs, jobs_scraped, jobs_before_ai,
                   pay_found, ai_parsed, saved>>
    /\ UNCHANGED <<storeVars, govVars, payVars, queryVars, writerVars>>

ScraperSets == { {"indeed"}, {"indeed", "vivian"}, {"indeed", "ziprecruiter"},
                 DefaultScrapers }

RunAtRest ==
    /\ args = [scrapers_to_use |-> DefaultScrapers, respect_robots |-> TRUE,
               use_ai_parsing |-> FALSE]
    /\ run_pc = "start"
    /\ scrapers = <<>>
    /\ visits = <<>>
    /\ all_jobs = <<>>
    /\ jobs_scraped = <<>>
    /\ jobs_before_ai = <<>>
    /\ pay_found = <<>>
    /\ ai_parsed = <<>>
    /\ saved = NotSaved
    /\ returned = <<>>

InitRun ==
    /\ args \in [scrapers_to_use : ScraperSets, respect_robots : BOOLEAN,
                 use_ai_parsing : BOOLEAN]
    /\ run_pc = "start"
    /\ scrapers = <<>>
    /\ visits = <<>>
    /\ all_jobs = <<>>
    /\ jobs_scraped = <<>>
    /\ jobs_before_ai = <<>>
    /\ pay_found = <<>>
    /\ ai_parsed = <<>>
    /\ saved = NotSaved
    /\ returned = <<>>

----------------------------------------------------------------------------
(* Two add_jobs calls at once, each in its own session and transaction    *)

\* the add_jobs calls that can overlap, each with a batch of one posting
Writers == {1, 2}

\* the URLs of the postings two overlapping calls bring
SharedUrls == {"http://x/1", "http://x/2"}

\* the posting writer w brings: its own observation of a listing
WriterJob(w, url) == JobRecord(w, url, <<"b", ",", " ", "m">>, 0)

\* A writer before its call: no posting, no lookup result, nothing pending.
IdleWriter ==
    [pc |-> "idle", job |-> WriterJob(1, "http://x/1"), existing |-> 0, pending |-> <<>>]

\* session = self.get_session(): writer w enters add_jobs with its posting.
WBegin(w, url) ==
    /\ writers[w].pc = "idle"
    /\ writers' = [writers EXCEPT ![w] = [IdleWriter EXCEPT !.pc = "begun",
                                                            !.job = WriterJob(w, url)]]
    /\ UNCHANGED <<storeVars, govVars, payVars, queryVars, runVars>>

\* The filter_by(source_url=...).first() query of writer w: it sees the rows
\* committed so far, not what another session has pending.
WLookup(w) ==
    /\ writers[w].pc = "begun"
    /\ writers' = [writers EXCEPT ![w].pc = "looked",
                                  ![w].existing = Existing(db, writers[w].job)]
    /\ UNCHANGED <<storeVars, govVars, payVars, queryVars, runVars>>

\* The branch after the lookup: existing.last_seen = datetime.now(), or
\* session.add(HealthcareJob(...)); either stays in the writer's session.
WAdd(w) ==
    /\ writers[w].pc = "looked"
    /\ LET loc == parse_location(writers[w].job.location)
       IN  writers' = [writers EXCEPT
                         ![w].pc = "added",
                         ![w].pending =
                            IF writers[w].existing # 0 THEN <<>>
                            ELSE <<NewJob(writers[w].job, loc.city, loc.state)>>]
    /\ UNCHANGED <<storeVars, govVars, payVars, queryVars, runVars>>

\* session.commit() of writer w: its pending row is inserted, or its update
\* of last_seen written, onto the rows committed by then.
WCommit(w) ==
    /\ writers[w].pc = "added"
    /\ writers' = [writers EXCEPT ![w].pc = "done"]
    /\ db' = IF writers[w].existing # 0
             THEN [db EXCEPT ![writers[w].existing] =
                      UpdateExisting(db[writers[w].existing], writers[w].job, now)]
             ELSE db \o Flush(writers[w].pending, DbNow)
    /\ UNCHANGED <<now, dbskew, sess, pc, batch, new_count, updated_count, result,
                   dbBefore, prev, ncalls>>
    /\ UNCHANGED <<govVars, payVars, queryVars, runVars>>

\* The database refuses writer w (locked, unreachable): rollback, re-raise.
WFail(w) ==
    /\ writers[w].pc \in {"begun", "looked", "added"}
    /\ writers' = [writers EXCEPT ![w].pc = "raised", ![w].pending = <<>>]
    /\ UNCHANGED <<storeVars, govVars, payVars, queryVars, runVars>>

WritersAtRest == writers = [w \in Writers |-> IdleWriter]

----------------------------------------------------------------------------
(* Specifications *)

InitStore ==
    /\ now = 0
    /\ dbskew \in -MaxSkew..MaxSkew
    /\ db = <<>>
    /\ sess = <<>>
    /\ pc = "idle"
    /\ batch = <<>>
    /\ new_count = 0
    /\ updated_count = 0
    /\ result = NoResult
    /\ dbBefore = <<>>
    /\ prev = NoCall
    /\ ncalls = 0

Init == InitStore /\ GovAtRest /\ PayAtRest /\ listing = NoListing /\ RunAtRest /\ WritersAtRest

Next ==
    \/ BeginCall
    \/ \E job_data \in Postings(now) : HandleItem(job_data)
    \/ Commit
    \/ StoreError
    \/ Tick

Spec == Init /\ [][Next]_vars

\* The governor and the scrape loop on their own, the store left empty.
GovInit ==
    InitGov /\ InitStore /\ dbskew = 0 /\ PayAtRest /\ listing = NoListing /\ RunAtRest
    /\ WritersAtRest

GovNext ==
    \/ StartScrape
    \/ ScrapeStep
    \/ EndScrape
    \/ \E url \in DirectUrls, net \in {"up", "down"} : CheckUrl(url, net)

GovSpec == GovInit /\ [][GovNext]_vars

\* The pay normalizer on its own: one text, one call.
PayInit ==
    InitPay /\ InitStore /\ dbskew = 0 /\ GovAtRest /\ listing = NoListing /\ RunAtRest
    /\ WritersAtRest

PayNext == Normalize

PaySpec == PayInit /\ [][PayNext]_vars

\* get_jobs on its own, over the tables add_jobs can have left.
QueryInit ==
    /\ \E t \in Tables : db = TableRows(t) /\ sess = db
    /\ now = MaxSeen /\ dbskew = 0
    /\ pc = "idle" /\ batch = <<>> /\ new_count = 0 /\ updated_count = 0
    /\ result = NoResult /\ dbBefore = <<>> /\ prev = NoCall /\ ncalls = 0
    /\ GovAtRest /\ PayAtRest /\ RunAtRest /\ WritersAtRest
    /\ listing = NoListing

QueryNext == \E source \in SourceFilters, limit \in 1..MaxRows : GetJobs(source, limit)

QuerySpec == QueryInit /\ [][QueryNext]_vars

\* run_scraper on its own, from its call to its return, on an empty store.
RunInit ==
    InitRun /\ InitStore /\ dbskew = 0 /\ GovAtRest /\ PayAtRest /\ listing = NoListing
    /\ WritersAtRest

RunNext ==
    \/ Construct
    \/ \E outcome \in ScrapeOutcomes : Visit(outcome)
    \/ NormalizePay
    \/ Enrich
    \/ \E reachable \in BOOLEAN : Save(reachable)
    \/ Finish

RunSpec == RunInit /\ [][RunNext]_vars

\* Two add_jobs calls that may overlap, on a store that starts empty.
WriterInit ==
    WritersAtRest /\ InitStore /\ GovAtRest /\ PayAtRest /\ RunAtRest
    /\ listing = NoListing

WriterNext ==
    \/ \E w \in Writers, url \in SharedUrls : WBegin(w, url)
    \/ \E w \in Writers : WLookup(w)
    \/ \E w \in Writers : WAdd(w)
    \/ \E w \in Writers : WCommit(w)
    \/ \E w \in Writers : WFail(w)
    \/ Tick

WriterSpec == WriterInit /\ [][WriterNext]_vars

----------------------------------------------------------------------------
(* Properties of the record store *)

UrlsOf(rows) == {rows[i].source_url : i \in DOMAIN rows}

\* the fields add_jobs never writes on a re-sighting
FrozenFields == {"job_title", "specialty", "facility_name", "city", "state", "location",
                 "pay_raw", "pay_rate_low", "pay_rate_high", "pay_type", "shift_type",
                 "employment_type", "source", "source_url", "search_query",
                 "scraped_at", "first_seen"}

\* the positions of b whose posting has source_url u
Occurrences(b, u) == {i \in DOMAIN b : b[i].job.source_url = u}

CountOp(b, op) == Cardinality({i \in DOMAIN b : b[i].op = op})

CountFalsyRows(rows) == Cardinality({i \in DOMAIN rows : ~Truthy(rows[i].source_url)})

\* C1 as stated: the store holds at most one row for each non-null
\* source_url, after any sequence of add_jobs calls of a single writer.
C1_OneRowPerNonNullUrl ==
    \A i, j \in DOMAIN db :
        (i # j /\ db[i].source_url # NoneVal) => db[i].source_url # db[j].source_url

\* C1, amended: the store, and the table as the open session sees it, hold
\* at most one row for each non-empty source_url (neither None nor ""),
\* whatever batches were submitted, repeated keys and failed batches included.
C1_OneRowPerUrl ==
    /\ \A i, j \in DOMAIN db :
         (i # j /\ Truthy(db[i].source_url)) => db[i].source_url # db[j].source_url
    /\ \A i, j \in DOMAIN sess :
         (i # j /\ Truthy(sess[i].source_url)) => sess[i].source_url # sess[j].source_url

\* a second call returned from a batch that repeats a key already stored
C1_Witness ==
    /\ pc = "returned" /\ ncalls = 2 /\ Len(batch) = 2
    /\ Truthy(batch[1].job.source_url)
    /\ batch[1].job.source_url = batch[2].job.source_url
    /\ batch[1].job.source_url \in UrlsOf(dbBefore)
    /\ Len(db) = 2

\* C2: a call that raises leaves no insert and no last_seen update of its
\* batch in the store, and returns no (new, updated) pair.
C2_AllOrNothing ==
    pc = "raised" => /\ db = dbBefore
                     /\ sess = <<>>
                     /\ result = NoResult

\* a call raised on its second item, after its first one had been applied
C2_Witness ==
    /\ pc = "raised" /\ Len(batch) = 2
    /\ batch[1].op \in {"insert", "update"}
    /\ batch[2].op = "raise"

\* C3: a step of add_jobs that handles a posting matching an existing row
\* changes last_seen of that row and nothing else: every other field of the
\* row, every other row and the committed store stay as the table held them.
C3_OnlyLastSeen ==
    [][ (pc = "running" /\ Len(batch') = Len(batch) + 1
                        /\ batch'[Len(batch')].op = "update")
        => LET k == batch'[Len(batch')].row
               held == Flush(sess, DbNow)
           IN  /\ DOMAIN sess' = DOMAIN sess
               /\ \A i \in DOMAIN sess : i # k => sess'[i] = held[i]
               /\ \A f \in FrozenFields : sess'[k][f] = held[k][f]
               /\ db' = db ]_vars

\* a posting was matched against a row that holds other values than it carries,
\* while another row is in the table
C3_Witness ==
    /\ pc = "running" /\ batch # <<>> /\ Len(sess) >= 2
    /\ LET last == batch[Len(batch)]
       IN  /\ last.op = "update"
           /\ sess[last.row].job_title # last.job.job_title
           /\ sess[last.row].last_seen # sess[last.row].first_seen

\* the two calls C4 is about: the same batch of one posting, submitted twice
\* in a row, both calls returning
SameSingleTwice ==
    /\ pc = "returned" /\ prev.outcome = "returned"
    /\ Len(batch) = 1 /\ Len(prev.batch) = 1
    /\ batch[1].job = prev.batch[1].job

C4_Outcome ==
    LET u == batch[1].job.source_url
        k == MatchLookup(db, u)
    IN  /\ prev.result = <<1, 0>>
        /\ result = <<0, 1>>
        /\ Len(db) = Len(prev.before) + 1
        /\ k # 0 /\ k = MatchLookup(dbBefore, u)
        /\ \A f \in FrozenFields : db[k][f] = dbBefore[k][f]

C6_LastSeenIsObservationTime ==
    pc = "returned" =>
        \A i \in DOMAIN batch :
            LET u == batch[i].job.source_url
                occ == Occurrences(batch, u)
            IN  (Truthy(u) /\ Cardinality(occ) > 1 /\ \A y \in occ : y <= i) =>
                   db[batch[i].row].last_seen = batch[i].job.scraped_at

----------------------------------------------------------------------------
(* Properties of the fetch governor *)

\* the verdict of an origin's own robots.txt on url, when the file is served
OwnVerdict(url) ==
    ~ \E p \in robots[url.origin].disallow : IsPrefix(p, url.target)

\* C8: when check_robots_txt disallows a url, get_page does not call
\* page.goto, does not count a request, returns no content and sleeps no
\* rate-limiting delay; the scrape loop never asks for that url again.
C8_DisallowedIsSkipped ==
    /\ (lastPage.made /\ ~lastPage.allowed) =>
          /\ ~lastPage.goto
          /\ ~lastPage.counted
          /\ request_count = lastPage.requests_before
          /\ lastPage.content = "none"
          /\ lastPage.delay = 0 /\ lastPage.penalty = 0
    /\ ~reasked

\* both pages of a job type were refused in turn, and the loop went on to
\* the next job type
C8_Witness ==
    /\ respect_robots
    /\ lastPage.made /\ ~lastPage.allowed
    /\ lastPage.url = BuildUrl(1, 1, PageSize)
    /\ Cardinality(skipped) = 2
    /\ scrape.active /\ scrape.job_type = 2 /\ scrape.page = 0
    /\ request_count = 0

\* the last check asked for robots.txt and got no file: the request raised,
\* or the server answered with an error status
DirectiveNotRetrieved ==
    \/ lastCheck.fetch = "raised"
    \/ lastCheck.fetch = "read" /\ robots[lastCheck.url.origin].kind # "ok"

\* C9 as stated: whenever the origin's directive cannot be retrieved,
\* check_robots_txt returns True (permit) and has slept a non-zero time
\* before its caller goes on.
C9_FailsOpen ==
    (lastCheck.made /\ DirectiveNotRetrieved) =>
        /\ lastCheck.allowed
        /\ lastCheck.ended > lastCheck.began

\* C10 as stated: every check whose robots.txt request did not fail is
\* decided by the robots.txt of the url's own origin, and that origin's file
\* has been read exactly once.
C10_PerOriginDirective ==
    (lastCheck.made /\ respect_robots /\ lastCheck.fetch # "raised") =>
        /\ lastCheck.used = lastCheck.url.origin
        /\ robots[lastCheck.url.origin].kind = "ok" =>
              lastCheck.allowed = OwnVerdict(lastCheck.url)
        /\ reads[lastCheck.url.origin] = 1

\* the crawl delay the robots.txt of the last page's own origin declares
\* (0 when it serves no file or no Crawl-delay line)
DeclaredDelay ==
    LET a == robots[lastPage.url.origin]
    IN  IF a.kind = "ok" THEN a.delay ELSE 0

\* C11 as stated: the delay random_delay sleeps is never under MIN_DELAY, and
\* when the url's origin declares a crawl delay above MAX_DELAY (and its
\* robots.txt could be requested), the delay is at least the declared value.
C11_DelayFloor ==
    (lastPage.made /\ lastPage.paced) =>
        /\ lastPage.delay >= MIN_DELAY
        /\ (respect_robots /\ lastPage.fetch # "raised" /\ DeclaredDelay > MAX_DELAY) =>
              lastPage.delay >= DeclaredDelay

\* C12 as stated: whenever the robots.txt the governor holds declares a crawl
\* delay d, the delay random_delay sleeps is at least d.
C12_CrawlDelayRespected ==
    (lastPage.made /\ lastPage.paced /\ lastPage.crawl_delay > 0) =>
        lastPage.delay >= lastPage.crawl_delay

\* C13: a counted request sleeps exactly one of three penalties before its
\* page load, chosen from rate = request_count / (elapsed / 60): HighPenalty
\* when rate > 15, LowPenalty when 10 < rate <= 15, nothing otherwise (a
\* zero elapsed time included); the time the request takes includes it.
C13_RatePenalty ==
    (lastPage.made /\ lastPage.counted) =>
        LET count   == lastPage.requests_before + 1
            elapsed == lastPage.elapsed
            high    == elapsed > 0 /\ count * 60 > 15 * elapsed
            low     == elapsed > 0 /\ count * 60 > 10 * elapsed /\ ~high
        IN  /\ high => lastPage.penalty = 10
            /\ low => lastPage.penalty = 5
            /\ (~high /\ ~low) => lastPage.penalty = 0
            /\ lastPage.ended - lastPage.started >= lastPage.penalty

\* the second request of a session came 4 seconds in (30 a minute) and was
\* held for the large penalty before it was loaded
C13_Witness ==
    /\ lastPage.made /\ lastPage.counted /\ lastPage.goto
    /\ lastPage.requests_before = 1
    /\ lastPage.elapsed > 0 /\ 2 * 60 > 15 * lastPage.elapsed
    /\ lastPage.penalty = HighPenalty
    /\ request_count = 2

----------------------------------------------------------------------------
(* Properties of the pay normalizer *)

Called == normalized # NotRun
IntAssumptions == assumed_weekly_hours.type = "int" /\ assumed_annual_hours.type = "int"
PayLower == IF pay_text = NoneText THEN <<>> ELSE Strip(Lower(pay_text))
Inferred == {"inferred_hourly", "inferred_weekly", "inferred_annual"}

\* C14 as stated: normalize never raises, whatever the pay text, and returns
\* None for an absent or empty one.
C14_NeverRaises ==
    (Called /\ IntAssumptions) =>
        /\ normalized.status # "raised"
        /\ pay_text \in {NoneText, <<>>} => normalized = NoPay

\* what each explicit pattern yields for the text at hand
HourlyYield == TryHourly(PayLower)
WeeklyYield == TryWeekly(PayLower, assumed_weekly_hours)
AnnualYield == TryAnnual(PayLower, assumed_annual_hours)

\* C15: the first pattern that yields a value wins, hourly before weekly
\* before annual, the bare-dollar fallback last; a pattern yields a value
\* when its first match has a non-zero first amount.  So a text whose hourly
\* match yields is typed hourly wherever the other amounts stand, and an
\* inferred_* type is produced only when no explicit pattern yielded.
C15_OrderedCascade ==
    (Called /\ pay_text # NoneText) =>
        LET hourly == HourlyYield
            weekly == WeeklyYield
            annual == AnnualYield
        IN  /\ hourly # NoPay => normalized = hourly
            /\ (hourly = NoPay /\ weekly # NoPay) => normalized = weekly
            /\ (hourly = NoPay /\ weekly = NoPay /\ annual # NoPay) =>
                  normalized = annual
            /\ normalized.type \in Inferred =>
                  hourly = NoPay /\ weekly = NoPay /\ annual = NoPay
            /\ normalized.type = "hourly" => hourly.type = "hourly"

\* a per-week amount stands before a per-hour amount, and the result is the
\* hourly one
C15_Witness ==
    /\ Called /\ normalized.status = "ok" /\ normalized.type = "hourly"
    /\ Search(WEEKLY_PATTERN, PayLower).matched
    /\ Search(WEEKLY_PATTERN, PayLower).start < Search(HOURLY_PATTERN, PayLower).start
    /\ WeeklyYield.type = "weekly_converted"
    /\ normalized.low # WeeklyYield.low

\* C15 as stated: a text in which the hourly pattern matches is typed hourly,
\* and an inferred_* type is produced only when no explicit pattern matched.
C15_InferredOnlyUnmatched ==
    (Called /\ pay_text # NoneText /\ normalized.status = "ok") =>
        /\ Search(HOURLY_PATTERN, PayLower).matched => normalized.type = "hourly"
        /\ normalized.type \in Inferred =>
              /\ ~Search(HOURLY_PATTERN, PayLower).matched
              /\ ~Search(WEEKLY_PATTERN, PayLower).matched
              /\ ~Search(ANNUAL_PATTERN, PayLower).matched

\* the Decimal a written amount stands for
Written(amount) == clean_number(amount)

\* C16 as stated: an hourly pay string with a single positive bound b, with
\* or without a fractional part, is returned as type hourly with
\* low = high = b.
C16_SingleBoundHourly ==
    \A a \in Amounts, f \in Fractions :
        (/\ Called
         /\ pay_text = Phrase(a, f, <<>>, <<>>, <<"/", "h", "r">>)
         /\ TruthyDec(Written(a))) =>
            /\ normalized.status = "ok"
            /\ normalized.type = "hourly"
            /\ normalized.low = Written(a \o f)
            /\ normalized.high = Written(a \o f)

\* C17 as stated: an explicit weekly amount W (here below 10^26, one bound
\* or two) under any configured positive divisor h is returned as type
\* weekly_converted with low = round(W / h, 2), high the converted upper
\* bound, or low when there is none.
C17_WeeklyConverted ==
    \A a \in Amounts, r \in UpperBounds :
        (/\ Called
         /\ pay_text = Phrase(a, <<>>, <<>>, r, <<"/", "w", "e", "e", "k">>)
         /\ TruthyDec(Written(a)) /\ ~Written(a).big) =>
            LET low == Dec(RoundHalfEven(Written(a).cents * 10,
                                         assumed_weekly_hours.tenths))
                high == IF r = <<>> THEN low
                        ELSE Dec(RoundHalfEven(Written(Tail(r)).cents * 10,
                                               assumed_weekly_hours.tenths))
            IN  /\ normalized.status = "ok"
                /\ normalized.type = "weekly_converted"
                /\ normalized.low = low
                /\ normalized.high = high

\* C18 as stated: an annual amount is multiplied by 1000 before the division
\* exactly when it is under 1000 and written with a k marker of its own,
\* whatever else the text holds.
C18_OwnKMarker ==
    \A a \in Amounts, k \in Marks, t \in Trailers :
        (/\ Called /\ IntAssumptions
         /\ pay_text = Phrase(a, <<>>, k, <<>>, <<"/", "y", "r">>) \o t
         /\ TruthyDec(Written(a)) /\ ~Written(a).big) =>
            LET amount == Written(a)
                scaled == IF DecLess(amount, 1000) /\ k # <<>>
                          THEN Dec(amount.cents * 1000) ELSE amount
            IN  /\ normalized.type = "annual_converted"
                /\ normalized.low = ToHourly(scaled, assumed_annual_hours)

\* the non-zero bare dollar amounts of the text at hand
BareAmounts ==
    LET matches == FindAll(SIMPLE_DOLLAR, pay_text)
    IN  SelectSeq([k \in DOMAIN matches |-> clean_number(matches[k])], TruthyDec)

\* C19 as stated: the fallback's class follows the least bare amount m:
\* m < 200 inferred_hourly, unconverted; 200 <= m <= 5000 inferred_weekly,
\* over the weekly hours; m > 5000 inferred_annual, over the annual hours;
\* low comes from the least and high from the greatest amount.
C19_FallbackClasses ==
    (Called /\ IntAssumptions /\ normalized.status = "ok"
            /\ normalized.type \in Inferred) =>
        LET m == MinOf(BareAmounts)
            top == MaxOf(BareAmounts)
        IN  IF DecLess(m, 200)
            THEN /\ normalized.type = "inferred_hourly"
                 /\ normalized.low = m /\ normalized.high = top
            ELSE IF DecLeq(m, Dec(500000))
            THEN /\ normalized.type = "inferred_weekly"
                 /\ normalized.low = ToHourly(m, assumed_weekly_hours)
                 /\ normalized.high = ToHourly(top, assumed_weekly_hours)
            ELSE /\ normalized.type = "inferred_annual"
                 /\ normalized.low = ToHourly(m, assumed_annual_hours)
                 /\ normalized.high = ToHourly(top, assumed_annual_hours)

----------------------------------------------------------------------------
(* Properties of get_jobs *)

\* C20 as stated: get_jobs returns at most limit rows, the most recently
\* observed (greatest last_seen) first, and when more rows match than limit
\* allows, none left out was observed more recently than one returned.
C20_MostRecentlySeenFirst ==
    listing.made =>
        LET ids == listing.ids
            out == Matching(db, listing.source) \ {ids[k] : k \in DOMAIN ids}
        IN  /\ Len(ids) <= listing.limit
            /\ \A k, l \in DOMAIN ids :
                  k < l => db[ids[k]].last_seen >= db[ids[l]].last_seen
            /\ \A k \in DOMAIN ids, i \in out : db[ids[k]].last_seen >= db[i].last_seen

\* C21 as stated: location parsing returns a (city, state) pair for every
\* location text and never raises, so no posting's location text (one ending
\* in a comma included) makes add_jobs fail and roll back the batch.
C21_LocationTotal ==
    \A i \in DOMAIN batch : batch[i].op # "raise"

\* C22 as stated: a posting that supplies its own city and state fields is
\* inserted as a row with that city and that state; the location text is
\* split only for a posting without them.
C22_SuppliedCityStateStored ==
    pc \in {"running", "returned"} =>
       \A i \in DOMAIN batch :
          batch[i].op = "insert" =>
             LET row == IF pc = "running" THEN sess[batch[i].row] ELSE db[batch[i].row]
             IN  /\ row.city = batch[i].job.city
                 /\ row.state = batch[i].job.state

----------------------------------------------------------------------------
(* Properties of run_scraper *)

\* the visits made are those of the nested loop, in its order
VisitedAll ==
    /\ Len(visits) = VisitsDue
    /\ \A k \in DOMAIN visits :
          visits[k].city = VisitAt(k).city /\ visits[k].name = VisitAt(k).name

\* the row add_jobs wrote or matched for posting i of the stored batch
RowFor(i) == saved.rows[saved.ops[i].row]

\* postings whose pay text normalize answers with no result
Unparsed == {i \in DOMAIN pay_found :
                TruthyText(jobs_scraped[i].pay_raw) /\ pay_found[i].status = "none"}

\* C23 as stated: once the scrapers exist, no fetch- or parse-level failure
\* aborts the run: every source and city is visited whatever the earlier
\* visits did, normalization, storage and export run on what was collected,
\* and a failed store step leaves the run to complete and return all_jobs.
C23_FailuresNeverAbort ==
    /\ Len(scrapers) > 0 => run_pc # "raised"
    /\ run_pc \in {"normalized", "enriched", "saved", "returned"} => VisitedAll
    /\ run_pc \in {"saved", "returned"} => saved.status \in {"ok", "failed"}
    /\ run_pc = "returned" => returned = all_jobs /\ Len(returned) = Len(jobs_scraped)

\* C24, amended: a posting whose pay text normalize answers with no result
\* leaves the normalization loop unmodified; when add_jobs inserts a row for
\* it, the row has the raw text, and its pay_rate_low and pay_rate_high are
\* null unless AIJobParser.parse answered for the posting, in which case they
\* are the answer's.
C24_UnparsedPayKept ==
    /\ run_pc \in {"normalized", "enriched", "saved", "returned"} =>
          \A i \in Unparsed : jobs_before_ai # <<>> => jobs_before_ai[i] = jobs_scraped[i]
    /\ run_pc = "normalized" => \A i \in Unparsed : all_jobs[i] = jobs_scraped[i]
    /\ saved.status = "ok" =>
          \A i \in Unparsed :
             saved.ops[i].op = "insert" =>
                /\ RowFor(i).pay_raw = jobs_scraped[i].pay_raw
                /\ IF ai_parsed[i].parsed
                   THEN /\ RowFor(i).pay_rate_low = ai_parsed[i].pay_rate_low
                        /\ RowFor(i).pay_rate_high = ai_parsed[i].pay_rate_high
                   ELSE /\ RowFor(i).pay_rate_low = NoDecimal
                        /\ RowFor(i).pay_rate_high = NoDecimal

\* C24 as stated: the row stored for a posting whose pay text normalize
\* answers with no result has that raw text and null pay_rate_low and
\* pay_rate_high.
C24_UnparsedPayNull ==
    saved.status = "ok" =>
       \A i \in Unparsed :
          /\ RowFor(i).pay_raw = jobs_scraped[i].pay_raw
          /\ RowFor(i).pay_rate_low = NoDecimal
          /\ RowFor(i).pay_rate_high = NoDecimal

\* a posting with the pay text "DOE" went through a run without an answer
\* of the AI step and was inserted with null pay
C24_Witness ==
    /\ run_pc = "returned"
    /\ saved.status = "ok"
    /\ \E i \in Unparsed :
          /\ jobs_scraped[i].pay_raw = Unparseable
          /\ ~ai_parsed[i].parsed
          /\ saved.ops[i].op = "insert"
          /\ RowFor(i).pay_raw = Unparseable
          /\ RowFor(i).pay_rate_low = NoDecimal

\* C25 as stated: for every posting the AI step is applied to, a non-null
\* pay_rate_low, pay_rate_high and pay_type from the normalizer is unchanged
\* afterwards, and only fields that were empty are filled.
C25_EnrichmentAdditive ==
    run_pc \in {"enriched", "saved", "returned"} =>
       \A i \in DOMAIN all_jobs :
          ai_parsed[i].asked =>
             LET before == jobs_before_ai[i]
                 after == all_jobs[i]
             IN  /\ before.pay_rate_low # NoDecimal => after.pay_rate_low = before.pay_rate_low
                 /\ before.pay_rate_high # NoDecimal =>
                       after.pay_rate_high = before.pay_rate_high
                 /\ before.pay_type # NoneVal => after.pay_type = before.pay_type
                 /\ TruthyText(before.specialty) => after.specialty = before.specialty
                 /\ TruthyText(before.shift_type) => after.shift_type = before.shift_type
                 /\ TruthyText(before.employment_type) =>
                       after.employment_type = before.employment_type

\* C27 as stated: the construction block succeeds for every selected
\* scraper, the default set included, and every scraper it builds carries
\* the run's respect_robots setting.
C27_EveryScraperConstructed ==
    run_pc # "start" =>
       /\ {scrapers[i].name : i \in DOMAIN scrapers} = args.scrapers_to_use
       /\ \A i \in DOMAIN scrapers : scrapers[i].respect_robots = args.respect_robots

----------------------------------------------------------------------------
(* Properties of the pacing between page loads *)

\* C26 as stated: between two consecutive page loads of one scraper
\* instance at least MIN_DELAY elapses, also when the earlier load failed.
C26_DelayBetweenLoads ==
    (lastPage.made /\ lastPage.goto /\ lastPage.last_goto_at # -1) =>
       lastPage.goto_at - lastPage.last_goto_at >= MIN_DELAY

----------------------------------------------------------------------------
(* Properties of the two clocks and of two writers *)

\* C28 as stated: every stored row has first_seen <= last_seen, and the
\* last_seen of a stored row never decreases, the insert timestamps being
\* the database clock's and the re-sighting timestamp the process clock's.
C28_SeenOrdered ==
    /\ \A i \in DOMAIN db : db[i].first_seen <= db[i].last_seen
    /\ pc = "returned" =>
          \A i \in DOMAIN dbBefore : db[i].last_seen >= dbBefore[i].last_seen

\* C29 as stated: when two add_jobs calls that overlap both bring a posting
\* with the same source_url, unseen before, the store ends with exactly one
\* row for that URL under every interleaving of their steps.
C29_OneRowUnderConcurrency ==
    (/\ \A w \in Writers : writers[w].pc = "done"
     /\ \A w, x \in Writers : writers[w].job.source_url = writers[x].job.source_url) =>
       Cardinality({i \in DOMAIN db : db[i].source_url = writers[1].job.source_url}) = 1

----------------------------------------------------------------------------
(* Properties of the bounds normalize returns *)

\* C30 as stated: every result of normalize has 0 < low <= high, for every
\* pattern of the cascade, ranges written in descending order included.
C30_BoundsOrdered ==
    normalized.status = "ok" =>
       /\ TruthyDec(normalized.low)
       /\ normalized.low.big => normalized.high.big
       /\ (~normalized.low.big /\ ~normalized.high.big) =>
             (0 < normalized.low.cents /\ normalized.low.cents <= normalized.high.cents)

====
